---- MODULE Spec2Model ----
(***************************************************************************)
(* Model of src/functions.py (FitRing): pandas helpers that load a CSV,    *)
(* report nulls/duplicates, coerce column types, rank groups by            *)
(* sum/mean/percentage and bin ages for two charts.                        *)
(*                                                                         *)
(* A DataFrame is a sequence of rows; a row is a function from column      *)
(* name to cell.  A cell is NaN (missing), a string <<"s", text>>, an      *)
(* integer <<"i", n>> or a float <<"f", num, den>> kept as a reduced       *)
(* fraction, so that pandas' float results (means, percentages) compare    *)
(* exactly.                                                                *)
(***************************************************************************)
EXTENDS Integers, Sequences, FiniteSets, TLC

VARIABLES df,          \* the caller's DataFrame: its rows
          columns,     \* df.columns
          before,      \* df and df.columns as they were when the last call began
          chart,       \* what the last call handed to matplotlib
          op,          \* the last call: its name and arguments
          ret,         \* what the last call returned: "None", "df" (the table itself),
                       \* "raised" (an exception), a ranking or a report
          grouped,     \* the groups df.groupby formed in the last aggregate call
          df_country,  \* plot_population_pyramid's local copy, after pd.cut
          header,      \* the column names pd.read_csv produced
          names        \* df.columns after load_and_clean_csv

vars == <<df, columns, before, chart, op, ret, grouped, df_country, header, names>>

----------------------------------------------------------------------------
(* Bounds of the model *)
MaxRows == 3        \* rows of a table given to the aggregates
MaxRankRows == 2    \* rows of a table with two value columns
MaxN == 2           \* n ranges over -MaxN .. MaxN
MaxPlotRows == 2    \* rows of a table given to the plots
MaxRawRows == 2     \* rows of a table given to the type coercion
MaxFrameRows == 1   \* rows of a table that goes through a sequence of calls
MaxAge == 2         \* largest age, and largest bin edge
MaxLen == 2         \* characters of a column name
MaxCols == 2        \* columns of a header, entries of a column list

----------------------------------------------------------------------------
(* Cells *)
NaN == <<>>
Str(s) == <<"s", s>>
Int64(n) == <<"i", n>>

RECURSIVE Gcd(_, _)
Gcd(a, b) == IF b = 0 THEN a ELSE Gcd(b, a % b)

\* a float holding the exact quotient n / d (d > 0, n >= 0)
Float(n, d) == <<"f", n \div Gcd(n, d), d \div Gcd(n, d)>>

IsNull(c) == c = NaN
Numer(c) == c[2]
Denom(c) == IF c[1] = "f" THEN c[3] ELSE 1

\* Python's a > b, a >= b on numbers: False as soon as one side is NaN
NumGT(a, b) == ~IsNull(a) /\ ~IsNull(b) /\ Numer(a) * Denom(b) > Numer(b) * Denom(a)
NumGE(a, b) == ~IsNull(a) /\ ~IsNull(b) /\ Numer(a) * Denom(b) >= Numer(b) * Denom(a)

\* the strings of the model in lexicographic order (how pandas sorts keys)
StrOrder == <<"A", "B", "Female", "Male">>
Rank(s) == CHOOSE i \in 1..Len(StrOrder) : StrOrder[i] = s
KeyLT(a, b) == IF a[1] = "s" THEN Rank(a[2]) < Rank(b[2]) ELSE NumGT(b, a)

Min(a, b) == IF a < b THEN a ELSE b
Max(a, b) == IF a > b THEN a ELSE b

\* all sequences over S of length lo..hi
SeqsOf(S, lo, hi) == UNION {[1..k -> S] : k \in lo..hi}

----------------------------------------------------------------------------
(* df.groupby(col): sort=True, dropna=True *)

ColumnValues(t, col) == {t[i][col] : i \in 1..Len(t)}

\* the distinct non-missing values of the column, ascending
GroupKeys(t, col) ==
    LET ks == ColumnValues(t, col) \ {NaN}
    IN  CHOOSE s \in [1..Cardinality(ks) -> ks] :
            \A i, j \in DOMAIN s : i < j => KeyLT(s[i], s[j])

GroupByDropnaFalse(t, col) ==
    LET keys == GroupKeys(t, col)
        real == [k \in 1..Len(keys) |->
                    [key |-> keys[k], idx |-> {i \in 1..Len(t) : t[i][col] = keys[k]}]]
        nul == {i \in 1..Len(t) : IsNull(t[i][col])}
    IN  IF nul = {} THEN real ELSE Append(real, [key |-> NaN, idx |-> nul])

GroupBy(t, col) ==
    LET keys == GroupKeys(t, col)
    IN  [k \in 1..Len(keys) |->
            [key |-> keys[k], idx |-> {i \in 1..Len(t) : t[i][col] = keys[k]}]]

\* .sum() of a numeric column over the rows idx: skipna, 0 when nothing is left
RECURSIVE SumOver(_, _, _)
SumOver(t, idx, col) ==
    IF idx = {} THEN 0
    ELSE LET i == CHOOSE x \in idx : TRUE
         IN  (IF IsNull(t[i][col]) THEN 0 ELSE Numer(t[i][col]))
             + SumOver(t, idx \ {i}, col)

\* 'count': the non-missing values; 'size': the rows
CountOver(t, idx, col) == Cardinality({i \in idx : ~IsNull(t[i][col])})
SizeOver(t, idx, col) == Cardinality(idx)

\* .mean(): skipna, NaN when nothing is left
MeanOver(t, idx, col) ==
    IF CountOver(t, idx, col) = 0 THEN NaN
    ELSE Float(SumOver(t, idx, col), CountOver(t, idx, col))

----------------------------------------------------------------------------
(* sort_values(by=col, ascending=False) and head(n) *)

Orderings(n) == {p \in [1..n -> 1..n] : \A i, j \in 1..n : i # j => p[i] # p[j]}

\* ascending=True instead of False
SortValuesAscending(t, col) ==
    {[k \in 1..Len(t) |-> t[p[k]]] : p \in
        {q \in Orderings(Len(t)) :
            \A i, j \in 1..Len(t) : i < j =>
                /\ ~NumGT(t[q[i]][col], t[q[j]][col])
                /\ IsNull(t[q[i]][col]) => IsNull(t[q[j]][col])
                /\ IsNull(t[q[i]][col]) => q[i] < q[j]}}

\* The outcomes of the sort.  kind defaults to 'quicksort', which is not
\* stable: rows with equal values come out in an order the build decides.
\* Missing values go last (na_position='last'), in their original order.
SortValues(t, col) ==
    {[k \in 1..Len(t) |-> t[p[k]]] : p \in
        {q \in Orderings(Len(t)) :
            \A i, j \in 1..Len(t) : i < j =>
                /\ ~NumGT(t[q[j]][col], t[q[i]][col])
                /\ IsNull(t[q[i]][col]) => IsNull(t[q[j]][col])
                /\ IsNull(t[q[i]][col]) => q[i] < q[j]}}

\* n <= 0 gives nothing
HeadClamped(t, n) == SubSeq(t, 1, Min(Max(n, 0), Len(t)))

\* the last rows instead of the first
HeadFromTail(t, n) ==
    IF n >= 0 THEN SubSeq(t, Len(t) - Min(n, Len(t)) + 1, Len(t))
    ELSE SubSeq(t, Min(-n, Len(t)) + 1, Len(t))

\* DataFrame.head(n): the first n rows; for negative n all but the last -n
head(t, n) ==
    IF n >= 0 THEN SubSeq(t, 1, Min(n, Len(t)))
    ELSE SubSeq(t, 1, Max(Len(t) + n, 0))

----------------------------------------------------------------------------
(* The tables of the model *)

Countries == {Str("A"), Str("B")}
\* the indicator column holds 0 or 1 ("obesos", lines 115-116)
Numbers == {Int64(0), Int64(1)}

AggColumns == {"country", "obese"}
AggRows == {r \in [AggColumns -> Countries \cup Numbers \cup {NaN}] :
                /\ r["country"] \in Countries \cup {NaN}
                /\ r["obese"] \in Numbers \cup {NaN}}
AggTables == SeqsOf(AggRows, 0, MaxRows)

\* a table with a second numeric column, for mean_columns of two columns
RankColumns == {"country", "obese", "age"}
RankRows == {r \in [RankColumns -> Countries \cup Numbers \cup {NaN}] :
                /\ r["country"] \in Countries \cup {NaN}
                /\ r["obese"] \in Numbers \cup {NaN}
                /\ r["age"] \in Numbers \cup {NaN}}
RankTables == SeqsOf(RankRows, 0, MaxRankRows)

NRange == (0 - MaxN)..MaxN

Idle == [name |-> "none"]

----------------------------------------------------------------------------
(* The aggregates *)

Range(s) == {s[i] : i \in DOMAIN s}
GroupCols == {"country", "sex"} \cap Range(columns)
ValueCols == {"obese", "age"} \cap Range(columns)

\* line 84: df.groupby(group_by_column)[sum_column].sum().reset_index()
GroupSums(t, group_by_column, sum_column) ==
    LET gb == GroupBy(t, group_by_column)
    IN  [k \in 1..Len(gb) |->
            (group_by_column :> gb[k].key)
            @@ (sum_column :> Int64(SumOver(t, gb[k].idx, sum_column)))]

\* line 106: df.groupby(group_by_column)[mean_columns].mean().reset_index()
GroupMeans(t, group_by_column, mean_columns) ==
    LET gb == GroupBy(t, group_by_column)
    IN  [k \in 1..Len(gb) |->
            [c \in {group_by_column} \cup Range(mean_columns) |->
                IF c = group_by_column THEN gb[k].key
                ELSE MeanOver(t, gb[k].idx, c)]]

\* 'count' as the denominator: the rows whose numerator is present
GroupPercentagesOfCount(t, group_by_column, numerator_column) ==
    LET gb == GroupBy(t, group_by_column)
        num(k) == SumOver(t, gb[k].idx, numerator_column)
        den(k) == CountOver(t, gb[k].idx, numerator_column)
    IN  [k \in 1..Len(gb) |->
            (group_by_column :> gb[k].key)
            @@ ("total_numerator" :> Int64(num(k)))
            @@ ("total_denominator" :> Int64(den(k)))
            @@ ("percentage" :> IF den(k) = 0 THEN NaN ELSE Float(num(k) * 100, den(k)))]

\* lines 130-136: the sum of the numerator and the size of each group, then
\* percentage = total_numerator / total_denominator * 100
GroupPercentages(t, group_by_column, numerator_column) ==
    LET gb == GroupBy(t, group_by_column)
        num(k) == SumOver(t, gb[k].idx, numerator_column)
        den(k) == SizeOver(t, gb[k].idx, group_by_column)
    IN  [k \in 1..Len(gb) |->
            (group_by_column :> gb[k].key)
            @@ ("total_numerator" :> Int64(num(k)))
            @@ ("total_denominator" :> Int64(den(k)))
            @@ ("percentage" :> Float(num(k) * 100, den(k)))]

\* what the three aggregates share: the call is recorded, the sorted table is
\* cut to its head, the caller's table is not touched
TopN(call, gb, sorted, n) ==
    /\ op' = call
    /\ grouped' = gb
    /\ ret' = head(sorted, n)
    /\ before' = [df |-> df, columns |-> columns]
    /\ UNCHANGED <<df, columns, chart, df_country, header, names>>

\* get_top_n_groups_by_sum(df, group_by_column, sum_column, n)
get_top_n_groups_by_sum(group_by_column, sum_column) ==
    /\ op = Idle
    /\ LET group_sums == GroupSums(df, group_by_column, sum_column)
           outcomes == SortValues(group_sums, sum_column)
           gb == GroupBy(df, group_by_column)
       IN  \E n \in NRange, sorted \in outcomes :
               TopN([name |-> "sum", by |-> group_by_column, rank |-> sum_column,
                     n |-> n], gb, sorted, n)

\* the ranking taken from the last of mean_columns instead of the first
get_top_n_groups_by_mean_of_last(group_by_column, mean_columns) ==
    /\ op = Idle
    /\ LET group_means == GroupMeans(df, group_by_column, mean_columns)
           outcomes == SortValues(group_means, mean_columns[Len(mean_columns)])
           gb == GroupBy(df, group_by_column)
       IN  \E n \in NRange, sorted \in outcomes :
               TopN([name |-> "mean", by |-> group_by_column, rank |-> mean_columns[1],
                     n |-> n], gb, sorted, n)

\* get_top_n_groups_by_mean(df, group_by_column, mean_columns, n)
get_top_n_groups_by_mean(group_by_column, mean_columns) ==
    /\ op = Idle
    /\ LET group_means == GroupMeans(df, group_by_column, mean_columns)
           outcomes == SortValues(group_means, mean_columns[1])
           gb == GroupBy(df, group_by_column)
       IN  \E n \in NRange, sorted \in outcomes :
               TopN([name |-> "mean", by |-> group_by_column, rank |-> mean_columns[1],
                     n |-> n], gb, sorted, n)

\* get_top_n_groups_by_percentage(df, group_by_column, numerator_column, n)
get_top_n_groups_by_percentage(group_by_column, numerator_column) ==
    /\ op = Idle
    /\ LET group_sums == GroupPercentages(df, group_by_column, numerator_column)
           outcomes == SortValues(group_sums, "percentage")
           gb == GroupBy(df, group_by_column)
       IN  \E n \in NRange, sorted \in outcomes :
               TopN([name |-> "percentage", by |-> group_by_column, rank |-> "percentage",
                     n |-> n, numerator |-> numerator_column], gb, sorted, n)

\* check_nulls_and_duplicates(df): the columns with nulls and their counts,
\* and the number of rows equal to an earlier row
check_nulls_and_duplicates ==
    /\ op = Idle
    /\ LET null_count(c) == Cardinality({i \in 1..Len(df) : IsNull(df[i][c])})
           nulls_summary == SelectSeq([k \in 1..Len(columns) |->
                                          [Column |-> columns[k],
                                           NullCount |-> null_count(columns[k])]],
                                      LAMBDA r : r.NullCount > 0)
           duplicates_count == Cardinality({i \in 1..Len(df) :
                                               \E j \in 1..(i - 1) : df[j] = df[i]})
       IN  /\ op' = [name |-> "check_nulls_and_duplicates"]
           /\ ret' = [nulls |-> nulls_summary, duplicates |-> duplicates_count]
           /\ before' = [df |-> df, columns |-> columns]
           /\ UNCHANGED <<df, columns, chart, grouped, df_country, header, names>>

\* the lists of distinct columns a caller passes
ColumnLists(S) == {cs \in SeqsOf(S, 1, MaxCols) :
                      \A i, j \in DOMAIN cs : i # j => cs[i] # cs[j]}

BySum ==
    \E g \in GroupCols, c \in ValueCols : get_top_n_groups_by_sum(g, c)

ByMean ==
    \E g \in GroupCols, cs \in ColumnLists(ValueCols) :
        get_top_n_groups_by_mean(g, cs)

ByPercentage ==
    \E g \in GroupCols, c \in ValueCols : get_top_n_groups_by_percentage(g, c)

CheckNullsAndDuplicates == check_nulls_and_duplicates

\* the caller takes the result; the table stays as the call left it
Return ==
    /\ op # Idle
    /\ op' = Idle
    /\ ret' = "None"
    /\ grouped' = <<>>
    /\ df_country' = <<>>
    /\ chart' = <<>>
    /\ UNCHANGED <<df, columns, before, header, names>>

----------------------------------------------------------------------------
(* pd.cut and the two plots *)

\* bins.searchsorted(x, side='left'): right=True, the intervals (a, b]
CutRightClosed(x, bins, labels) ==
    IF IsNull(x) THEN NaN
    ELSE LET ids == Cardinality({j \in 1..Len(bins) : bins[j] < Numer(x)})
         IN  IF ids = 0 \/ ids = Len(bins) THEN NaN ELSE Str(labels[ids])

\* pd.cut(x, bins=bins, labels=labels, right=False) of one value:
\* ids = bins.searchsorted(x, side='right'); ids 0 and len(bins) are out of
\* range and give NaN, and so does a missing x
Cut(x, bins, labels) ==
    IF IsNull(x) THEN NaN
    ELSE LET ids == Cardinality({j \in 1..Len(bins) : bins[j] <= Numer(x)})
         IN  IF ids = 0 \/ ids = Len(bins) THEN NaN ELSE Str(labels[ids])

\* t['age_group'] = pd.cut(t['age'], ...): the column is added, or overwritten
WithAgeGroup(t, bins, labels) ==
    [i \in 1..Len(t) |->
        [c \in DOMAIN t[i] \cup {"age_group"} |->
            IF c = "age_group" THEN Cut(t[i]["age"], bins, labels) ELSE t[i][c]]]

WithColumn(cols, c) == IF c \in Range(cols) THEN cols ELSE Append(cols, c)

\* t[t["country"] == country]
OfCountry(t, country) == SelectSeq(t, LAMBDA r : r["country"] = Str(country))

\* the rows of each age group, all categories listed, in category order
CountByLabel(t, labels) ==
    [k \in 1..Len(labels) |->
        Cardinality({i \in 1..Len(t) : t[i]["age_group"] = Str(labels[k])})]

\* the pyramid writing the age group into the caller's table
plot_population_pyramid_inplace(country, age_bins, age_labels) ==
    /\ op = Idle
    /\ LET labelled == OfCountry(WithAgeGroup(df, age_bins, age_labels), country)
           count(sex) == CountByLabel(SelectSeq(labelled, LAMBDA r : r["sex"] = Str(sex)),
                                      age_labels)
       IN  /\ op' = [name |-> "plot_population_pyramid", country |-> country,
                     age_bins |-> age_bins, age_labels |-> age_labels]
           /\ before' = [df |-> df, columns |-> columns]
           /\ df' = WithAgeGroup(df, age_bins, age_labels)
           /\ columns' = WithColumn(columns, "age_group")
           /\ df_country' = labelled
           /\ chart' = [kind |-> "barh", index |-> age_labels,
                        Male |-> count("Male"), Female |-> count("Female")]
           /\ ret' = "None"
           /\ UNCHANGED <<grouped, header, names>>

\* plot_age_distribution(df, country, age_bins, age_labels)
plot_age_distribution(country, age_bins, age_labels) ==
    /\ op = Idle
    /\ LET labelled == WithAgeGroup(df, age_bins, age_labels)
           age_group_counts == CountByLabel(OfCountry(labelled, country), age_labels)
       IN  /\ op' = [name |-> "plot_age_distribution", country |-> country,
                     age_bins |-> age_bins, age_labels |-> age_labels]
           /\ before' = [df |-> df, columns |-> columns]
           /\ df' = labelled
           /\ columns' = WithColumn(columns, "age_group")
           /\ chart' = [kind |-> "pie", labels |-> age_labels, x |-> age_group_counts]
           /\ ret' = "None"
           /\ UNCHANGED <<grouped, df_country, header, names>>

\* plot_population_pyramid(df, country, age_bins, age_labels)
plot_population_pyramid(country, age_bins, age_labels) ==
    /\ op = Idle
    /\ LET labelled == WithAgeGroup(OfCountry(df, country), age_bins, age_labels)
           count(sex) == CountByLabel(SelectSeq(labelled, LAMBDA r : r["sex"] = Str(sex)),
                                      age_labels)
       IN  /\ op' = [name |-> "plot_population_pyramid", country |-> country,
                     age_bins |-> age_bins, age_labels |-> age_labels]
           /\ before' = [df |-> df, columns |-> columns]
           /\ df_country' = labelled
           /\ chart' = [kind |-> "barh", index |-> age_labels,
                        Male |-> count("Male"), Female |-> count("Female")]
           /\ ret' = "None"
           /\ UNCHANGED <<df, columns, grouped, header, names>>

\* the bins pd.cut accepts: strictly increasing edges, at least two
AgeBins == {b \in SeqsOf(0..MaxAge, 2, MaxAge + 1) :
                \A j \in 1..(Len(b) - 1) : b[j] < b[j + 1]}
\* one label per interval, as pd.cut requires
AgeLabels == <<"minor", "adult", "senior", "elder", "old">>
LabelsFor(bins) == SubSeq(AgeLabels, 1, Len(bins) - 1)
CountryNames == {"A", "B"}

PlotAgeDistribution ==
    \E country \in CountryNames, bins \in AgeBins :
        plot_age_distribution(country, bins, LabelsFor(bins))

PlotPopulationPyramid ==
    \E country \in CountryNames, bins \in AgeBins :
        plot_population_pyramid(country, bins, LabelsFor(bins))

Ages == {Int64(a) : a \in 0..MaxAge}
Sexes == {Str("Male"), Str("Female")}
PlotColumns == {"country", "age", "sex"}
PlotRows == {r \in [PlotColumns -> Countries \cup Ages \cup Sexes \cup {NaN}] :
                /\ r["country"] \in Countries
                /\ r["age"] \in Ages \cup {NaN}
                /\ r["sex"] \in Sexes}
PlotTables == SeqsOf(PlotRows, 0, MaxPlotRows)
FrameTables == SeqsOf(PlotRows, 0, MaxFrameRows)

----------------------------------------------------------------------------
----------------------------------------------------------------------------
(* convert_columns_to_type *)

DigitStr == <<"0", "1", "2", "3", "4", "5", "6", "7", "8", "9">>
IsDigit(text) == \E d \in 1..Len(DigitStr) : DigitStr[d] = text
DigitOf(text) == (CHOOSE d \in 1..Len(DigitStr) : DigitStr[d] = text) - 1
\* how str() writes the float d.0
FloatStr(d) == DigitStr[d + 1] \o ".0"
IsFloatStr(text) == \E d \in 0..(Len(DigitStr) - 1) : FloatStr(d) = text
FloatOf(text) == CHOOSE d \in 0..(Len(DigitStr) - 1) : FloatStr(d) = text

\* whether astype(dtype) accepts the value: int() of a missing value or of a
\* text that is not an integer raises, float() reads integers, d.0 and "nan"
CanCast(c, dtype) ==
    CASE dtype = "str" -> TRUE
      [] dtype = "int64" ->
            IF IsNull(c) THEN FALSE
            ELSE IF c[1] = "s" THEN IsDigit(c[2]) ELSE TRUE
      [] dtype = "float64" ->
            IF IsNull(c) THEN TRUE
            ELSE IF c[1] = "s" THEN IsDigit(c[2]) \/ IsFloatStr(c[2]) \/ c[2] = "nan"
            ELSE TRUE

\* the value astype(dtype) gives
Cast(c, dtype) ==
    CASE dtype = "str" ->
            IF IsNull(c) THEN Str("nan")
            ELSE IF c[1] = "s" THEN c
            ELSE IF c[1] = "i" THEN Str(DigitStr[c[2] + 1])
            ELSE Str(FloatStr(c[2] \div c[3]))
      [] dtype = "int64" ->
            IF c[1] = "s" THEN Int64(DigitOf(c[2]))
            ELSE IF c[1] = "i" THEN c
            ELSE Int64(c[2] \div c[3])
      [] dtype = "float64" ->
            IF IsNull(c) THEN NaN
            ELSE IF c[1] = "s" THEN
                    IF c[2] = "nan" THEN NaN
                    ELSE IF IsDigit(c[2]) THEN Float(DigitOf(c[2]), 1)
                    ELSE Float(FloatOf(c[2]), 1)
            ELSE IF c[1] = "i" THEN Float(c[2], 1)
            ELSE c

\* df[column].astype(dtype) raises as soon as one value is refused
ColumnCasts(t, column, dtype) == \A i \in 1..Len(t) : CanCast(t[i][column], dtype)

\* df[column] = df[column].astype(dtype)
AssignCast(t, column, dtype) ==
    [i \in 1..Len(t) |-> [t[i] EXCEPT ![column] = Cast(t[i][column], dtype)]]

\* converting into a copy and assigning nothing unless every column converts
RECURSIVE ConvertAllOrNothing(_, _, _)
ConvertAllOrNothing(t, cols, dtype) ==
    IF \E k \in 1..Len(cols) : ~ColumnCasts(t, cols[k], dtype)
    THEN [df |-> t, raised |-> TRUE]
    ELSE IF cols = <<>> THEN [df |-> t, raised |-> FALSE]
    ELSE ConvertAllOrNothing(AssignCast(t, Head(cols), dtype), Tail(cols), dtype)

\* lines 65-66: the loop over the columns, each assigned as soon as it is
\* converted; the exception leaves the loop
RECURSIVE ConvertColumns(_, _, _)
ConvertColumns(t, cols, dtype) ==
    IF cols = <<>> THEN [df |-> t, raised |-> FALSE]
    ELSE IF ~ColumnCasts(t, Head(cols), dtype) THEN [df |-> t, raised |-> TRUE]
    ELSE ConvertColumns(AssignCast(t, Head(cols), dtype), Tail(cols), dtype)

\* convert_columns_to_type(df, columns, dtype)
convert_columns_to_type(cols, dtype) ==
    /\ op = Idle
    /\ LET done == ConvertColumns(df, cols, dtype)
       IN  /\ df' = done.df
           /\ ret' = IF done.raised THEN "raised" ELSE "df"
    /\ op' = [name |-> "convert_columns_to_type", columns |-> cols, dtype |-> dtype]
    /\ before' = [df |-> df, columns |-> columns]
    /\ UNCHANGED <<columns, chart, grouped, df_country, header, names>>

Dtypes == {"int64", "float64", "str"}

ConvertColumnsToType ==
    \E cols \in ColumnLists(Range(columns)), dtype \in Dtypes :
        convert_columns_to_type(cols, dtype)

\* what a freshly read column may hold: numbers, numeric text, other text, gaps
RawCells == {Int64(1), Str("1"), Str("x"), NaN}
RawColumns == {"age", "obese"}
RawTables == SeqsOf([RawColumns -> RawCells], 0, MaxRawRows)

----------------------------------------------------------------------------
(* load_and_clean_csv: a column name is the sequence of its characters *)

Alphabet == {"A", "a", " ", "_"}
Whitespace == {" "}

\* str.lower()
Lower(name) == [i \in DOMAIN name |-> IF name[i] = "A" THEN "a" ELSE name[i]]

RECURSIVE LStrip(_, _)
LStrip(name, chars) ==
    IF name # <<>> /\ name[1] \in chars THEN LStrip(Tail(name), chars) ELSE name

RECURSIVE RStrip(_, _)
RStrip(name, chars) ==
    IF name # <<>> /\ name[Len(name)] \in chars
    THEN RStrip(SubSeq(name, 1, Len(name) - 1), chars)
    ELSE name

\* str.strip(): leading and trailing whitespace removed
Strip(name) == RStrip(LStrip(name, Whitespace), Whitespace)

\* str.replace(old, new), one character for one character
Replace(name, old, new) == [i \in DOMAIN name |-> IF name[i] = old THEN new ELSE name[i]]

\* the arguments of replace exchanged
CleanNameReplaceSwapped(name) == Replace(Strip(Lower(name)), "_", " ")

\* strip taking the underscores with the whitespace
CleanNameStripUnderscores(name) ==
    Replace(RStrip(LStrip(Lower(name), {" ", "_"}), {" ", "_"}), " ", "_")

\* line 22, one name: .str.lower().str.strip().str.replace(" ", "_")
CleanName(name) == Replace(Strip(Lower(name)), " ", "_")

CleanColumns(cols) == [i \in DOMAIN cols |-> CleanName(cols[i])]

\* load_and_clean_csv(file_path): the table comes back with cleaned names
load_and_clean_csv ==
    /\ op = Idle
    /\ names = <<>>
    /\ names' = CleanColumns(header)
    /\ op' = [name |-> "load_and_clean_csv"]
    /\ ret' = "df"
    /\ before' = [df |-> df, columns |-> header]
    /\ UNCHANGED <<df, columns, chart, grouped, df_country, header>>

\* line 22 once more, on the table load_and_clean_csv returned
clean_again ==
    /\ op = Idle
    /\ names # <<>>
    /\ names' = CleanColumns(names)
    /\ op' = [name |-> "clean_again"]
    /\ ret' = "df"
    /\ before' = [df |-> df, columns |-> names]
    /\ UNCHANGED <<df, columns, chart, grouped, df_country, header>>

LoadAndCleanCsv == load_and_clean_csv
CleanAgain == clean_again

\* the headers pd.read_csv gives: one to MaxCols names, no two alike
ColumnNames == SeqsOf(Alphabet, 1, MaxLen)
Headers == {h \in SeqsOf(ColumnNames, 1, MaxCols) :
               \A i, j \in DOMAIN h : i # j => h[i] # h[j]}

Loaded(tables, cols) ==
    /\ df \in tables
    /\ columns = cols
    /\ before = [df |-> df, columns |-> columns]
    /\ chart = <<>>
    /\ op = Idle
    /\ ret = "None"
    /\ grouped = <<>>
    /\ df_country = <<>>
    /\ header = <<>>
    /\ names = <<>>

InitAgg == Loaded(AggTables, <<"country", "obese">>)

NextAgg == BySum \/ ByMean \/ ByPercentage \/ CheckNullsAndDuplicates \/ Return

SpecAgg == InitAgg /\ [][NextAgg]_vars

InitRank == Loaded(RankTables, <<"country", "obese", "age">>)

SpecRank == InitRank /\ [][NextAgg]_vars

InitConvert == Loaded(RawTables, <<"age", "obese">>)

NextConvert == ConvertColumnsToType \/ Return

SpecConvert == InitConvert /\ [][NextConvert]_vars

InitNames ==
    /\ header \in Headers
    /\ names = <<>>
    /\ df = <<>>
    /\ columns = <<>>
    /\ before = [df |-> df, columns |-> columns]
    /\ chart = <<>>
    /\ op = Idle
    /\ ret = "None"
    /\ grouped = <<>>
    /\ df_country = <<>>

NextNames == LoadAndCleanCsv \/ CleanAgain \/ Return

SpecNames == InitNames /\ [][NextNames]_vars

InitPlot == Loaded(PlotTables, <<"country", "age", "sex">>)

\* one plot of a freshly loaded table
NextPlot == PlotAgeDistribution \/ PlotPopulationPyramid

SpecPlot == InitPlot /\ [][NextPlot]_vars

InitFrame == Loaded(FrameTables, <<"country", "age", "sex">>)

\* any sequence of calls on the table, each seeing what the earlier ones left
NextFrame ==
    \/ CheckNullsAndDuplicates
    \/ BySum
    \/ ByMean
    \/ ByPercentage
    \/ PlotAgeDistribution
    \/ PlotPopulationPyramid
    \/ Return

SpecFrame == InitFrame /\ [][NextFrame]_vars

----------------------------------------------------------------------------
(* What the claims speak of, computed from the caller's table alone *)

IsAgg == op.name \in {"sum", "mean", "percentage"}

\* the column the aggregate reads its values from
ValueColumn == IF op.name = "percentage" THEN op.numerator ELSE op.rank

RowsOf(key) == {i \in 1..Len(df) : df[i][op.by] = key}
FirstSeen(key) == CHOOSE i \in RowsOf(key) : \A j \in RowsOf(key) : i <= j
Present(S) == {i \in S : ~IsNull(df[i][ValueColumn])}

RECURSIVE Weighted(_, _)
Weighted(V, S) ==
    IF V = {} THEN 0
    ELSE LET v == CHOOSE x \in V : TRUE
         IN  v * Cardinality({i \in S : df[i][ValueColumn] = Int64(v)})
             + Weighted(V \ {v}, S)

\* the sum of the non-missing values of the rows S
Total(S) == Weighted({Numer(df[i][ValueColumn]) : i \in Present(S)}, S)

\* the ranking value the group of this key should get
Expected(key) ==
    CASE op.name = "sum" -> Int64(Total(RowsOf(key)))
      [] op.name = "mean" ->
            IF Present(RowsOf(key)) = {} THEN NaN
            ELSE Float(Total(RowsOf(key)), Cardinality(Present(RowsOf(key))))
      [] op.name = "percentage" ->
            Float(100 * Total(RowsOf(key)), Cardinality(RowsOf(key)))

AllKeys == ColumnValues(df, op.by) \ {NaN}
KeptKeys == {ret[i][op.by] : i \in 1..Len(ret)}
DroppedKeys == AllKeys \ KeptKeys
SameValue(a, b) == NumGE(a, b) /\ NumGE(b, a)

----------------------------------------------------------------------------
(* C1: ties between groups are broken by encounter order: of two groups with
   equal aggregate values, the one whose first row comes earlier in the table
   comes earlier in the result, and is the one kept when truncation separates
   them.  (The claim as stated.) *)
C1_TiesByEncounterOrder ==
    IsAgg =>
        /\ \A i, j \in 1..Len(ret) :
               (i < j /\ SameValue(ret[i][op.rank], ret[j][op.rank]))
                   => FirstSeen(ret[i][op.by]) < FirstSeen(ret[j][op.by])
        /\ \A i \in 1..Len(ret) : \A h \in DroppedKeys :
               SameValue(ret[i][op.rank], Expected(h))
                   => FirstSeen(ret[i][op.by]) < FirstSeen(h)

(* C1 as amended: encounter order plays no part; only strict differences
   decide.  A group truncated away never has a strictly larger aggregate
   value than a group that was kept, a kept group with a missing value means
   every dropped group has a missing value too, and within the result a
   strictly larger value never comes later. *)
C1_OnlyStrictDifferencesDecide ==
    IsAgg =>
        /\ \A i \in 1..Len(ret) : \A h \in DroppedKeys :
               /\ ~NumGT(Expected(h), Expected(ret[i][op.by]))
               /\ IsNull(Expected(ret[i][op.by])) => IsNull(Expected(h))
        /\ \A i, j \in 1..Len(ret) :
               i < j => ~NumGT(Expected(ret[j][op.by]), Expected(ret[i][op.by]))

\* a tie that truncation resolved against the group seen first
C1_Witness ==
    /\ IsAgg
    /\ \E i \in 1..Len(ret) : \E h \in DroppedKeys :
           /\ SameValue(Expected(ret[i][op.by]), Expected(h))
           /\ FirstSeen(h) < FirstSeen(ret[i][op.by])

(* C2: the truncation returns nothing whenever n <= 0, negative n included,
   and every group whenever n >= the number of groups.  (The claim as
   stated.) *)
C2_EmptyForNonPositiveN ==
    IsAgg =>
        /\ op.n <= 0 => ret = <<>>
        /\ op.n >= Len(grouped) => Len(ret) = Len(grouped)

(* C2 as amended: the result has min(n, G) groups for n >= 0 and
   max(G + n, 0) groups for n < 0, G the number of groups: empty for n = 0,
   all groups for n >= G, and for a negative n all groups but the last -n of
   the ranking. *)
C2_HeadCount ==
    IsAgg =>
        Len(ret) = IF op.n >= 0
                   THEN Min(op.n, Cardinality(AllKeys))
                   ELSE Max(Cardinality(AllKeys) + op.n, 0)

\* a negative n that returned groups
C2_Witness == IsAgg /\ op.n < 0 /\ Len(ret) > 0

(* C3: the groups are disjoint and cover all rows of the table, rows with a
   missing grouping value included: every row is in exactly one group and the
   group sizes add up to the number of rows.  (The claim as stated.) *)
C3_GroupsCoverAllRows ==
    IsAgg =>
        \A i \in 1..Len(df) :
            Cardinality({k \in 1..Len(grouped) : i \in grouped[k].idx}) = 1

(* C3 as amended: the groups are disjoint and cover exactly the rows whose
   grouping value is present: such a row is in exactly one group, the one
   of its value; a row whose grouping value is missing is in no group. *)
C3_GroupsCoverKeyedRows ==
    IsAgg =>
        \A i \in 1..Len(df) :
            LET mine == {k \in 1..Len(grouped) : i \in grouped[k].idx}
            IN  IF IsNull(df[i][op.by]) THEN mine = {}
                ELSE /\ Cardinality(mine) = 1
                     /\ \A k \in mine : grouped[k].key = df[i][op.by]

\* two groups were formed and a row with a missing grouping value was left out
C3_Witness ==
    /\ IsAgg
    /\ Len(grouped) >= 2
    /\ \E i \in 1..Len(df) : IsNull(df[i][op.by])

(* C5: the result is sorted non-increasing by the ranking value (the sum, the
   mean of the first of mean_columns, the percentage): of two adjacent rows
   the earlier one's value is >= the later one's.  (The claim as stated.) *)
C5_AdjacentNonIncreasing ==
    IsAgg =>
        \A i \in 1..(Len(ret) - 1) : NumGE(ret[i][op.rank], ret[i + 1][op.rank])

(* C5 as amended: each row carries the ranking value of its group, and of
   two adjacent rows either the earlier one's value is >= the later one's or
   the later one's is missing (a group whose values are all missing has no
   mean): the rows with a value are sorted non-increasing and the rows
   without come last. *)
C5_NonIncreasingMissingLast ==
    IsAgg =>
        /\ \A i \in 1..Len(ret) : ret[i][op.rank] = Expected(ret[i][op.by])
        /\ \A i \in 1..(Len(ret) - 1) :
               \/ NumGE(ret[i][op.rank], ret[i + 1][op.rank])
               \/ IsNull(ret[i + 1][op.rank])

\* a ranking by the mean of the first of two columns whose last group has
\* no mean in that column, after a group that has one
C5_Witness ==
    /\ IsAgg
    /\ op.name = "mean"
    /\ Len(ret) = 2
    /\ DOMAIN ret[1] = {op.by, "obese", "age"}
    /\ ~IsNull(ret[1][op.rank])
    /\ IsNull(ret[2][op.rank])

(* C6: each returned percentage is 100 * (sum of the group's non-missing
   numerator values) / (number of rows of the group, rows with a missing
   numerator counted), and so lies in [0, 100] for a 0/1 numerator. *)
C6_PercentageOfRows ==
    op.name = "percentage" =>
        \A i \in 1..Len(ret) :
            LET rows == RowsOf(ret[i][op.by])
                pct == ret[i]["percentage"]
            IN  /\ ret[i]["total_denominator"] = Int64(Cardinality(rows))
                /\ ~IsNull(pct)
                /\ Numer(pct) * Cardinality(rows) = 100 * Total(rows) * Denom(pct)
                /\ NumGE(pct, Int64(0))
                /\ NumGE(Int64(100), pct)

\* a group with a missing numerator whose percentage is strictly inside (0, 100)
C6_Witness ==
    /\ op.name = "percentage"
    /\ \E i \in 1..Len(ret) :
           /\ Present(RowsOf(ret[i][op.by])) # RowsOf(ret[i][op.by])
           /\ NumGT(ret[i]["percentage"], Int64(0))
           /\ NumGT(Int64(100), ret[i]["percentage"])

----------------------------------------------------------------------------
ReadOnlyCalls == {"check_nulls_and_duplicates", "sum", "mean", "percentage",
                  "plot_population_pyramid"}

(* C7: the data-quality report, the three aggregates and the two plots
   consume the table read-only: after any of these calls the caller's table
   has the columns and the values it had before.  (The claim as stated.) *)
C7_AllSixReadOnly ==
    op.name \in ReadOnlyCalls \cup {"plot_age_distribution"} =>
        /\ df = before.df
        /\ columns = before.columns

(* C7 as amended: check_nulls_and_duplicates, the three aggregates and
   plot_population_pyramid leave the caller's table as it was;
   plot_age_distribution adds the column age_group to the caller's table (or
   overwrites it) and leaves the rows, their order and every other column as
   they were. *)
C7_ReadOnlyButAgeDistribution ==
    /\ op.name \in ReadOnlyCalls => (df = before.df /\ columns = before.columns)
    /\ op.name = "plot_age_distribution" =>
        /\ Len(df) = Len(before.df)
        /\ Range(columns) = Range(before.columns) \cup {"age_group"}
        /\ \A i \in 1..Len(df) :
               /\ DOMAIN df[i] = Range(columns)
               /\ \A c \in Range(before.columns) \ {"age_group"} :
                      df[i][c] = before.df[i][c]

\* the pyramid was drawn from labelled rows and the caller's table has no age_group
C7_Witness ==
    /\ op.name = "plot_population_pyramid"
    /\ Len(df_country) > 0
    /\ "age_group" \notin Range(columns)
    /\ \E i \in 1..Len(df_country) : ~IsNull(df_country[i]["age_group"])

\* the frame the last plot labelled
Labelled == IF op.name = "plot_age_distribution" THEN df ELSE df_country
IsPlot == op.name \in {"plot_age_distribution", "plot_population_pyramid"}

(* C8: binning gives an age the label of the half-open interval
   [edge_i, edge_i+1) that contains it: an age on a lower edge gets that
   bin's label, an age on a bin's upper edge the next bin's, and an age below
   the first edge or at or above the last edge gets no label. *)
C8_HalfOpenBins ==
    IsPlot =>
        \A i \in 1..Len(Labelled) :
            LET age == Labelled[i]["age"]
                group == Labelled[i]["age_group"]
                bins == op.age_bins
            IN  ~IsNull(age) =>
                    /\ \A j \in 1..(Len(bins) - 1) :
                           (bins[j] <= Numer(age) /\ Numer(age) < bins[j + 1])
                               => group = Str(op.age_labels[j])
                    /\ (Numer(age) < bins[1] \/ Numer(age) >= bins[Len(bins)])
                           => IsNull(group)

\* an age on an inner edge took the next bin's label and an age on the last
\* edge took none
C8_Witness ==
    /\ IsPlot
    /\ Len(op.age_bins) = 3
    /\ \E i, k \in 1..Len(Labelled) :
           /\ Labelled[i]["age"] = Int64(op.age_bins[2])
           /\ Labelled[i]["age_group"] = Str(op.age_labels[2])
           /\ Labelled[k]["age"] = Int64(op.age_bins[3])
           /\ IsNull(Labelled[k]["age_group"])

----------------------------------------------------------------------------
IsFailedConvert == op.name = "convert_columns_to_type" /\ ret = "raised"

\* the value has the type the call asked for
HasDtype(c, dtype) ==
    CASE dtype = "str" -> ~IsNull(c) /\ c[1] = "s"
      [] dtype = "int64" -> ~IsNull(c) /\ c[1] = "i"
      [] dtype = "float64" -> IsNull(c) \/ c[1] = "f"

(* C4: convert_columns_to_type is all-or-nothing: when a value of a named
   column cannot be converted the call fails and the table is exactly as it
   was before the call.  (The claim as stated.) *)
C4_AllOrNothing == IsFailedConvert => df = before.df

(* C4 as amended: the conversion goes column by column in list order.  When
   the call fails it fails at the first listed column holding a value that
   cannot be converted; the columns listed before it have been converted in
   the caller's table, and that column and every other column are as they
   were before the call. *)
C4_ColumnByColumn ==
    IsFailedConvert =>
        \E k \in 1..Len(op.columns) :
            LET earlier == {op.columns[j] : j \in 1..(k - 1)}
            IN  /\ \E i \in 1..Len(before.df) :
                       ~CanCast(before.df[i][op.columns[k]], op.dtype)
                /\ \A c \in earlier : \A i \in 1..Len(before.df) :
                       /\ CanCast(before.df[i][c], op.dtype)
                       /\ HasDtype(df[i][c], op.dtype)
                /\ Len(df) = Len(before.df)
                /\ \A c \in Range(columns) \ earlier : \A i \in 1..Len(df) :
                       df[i][c] = before.df[i][c]

\* a failed call that left an earlier column converted
C4_Witness ==
    /\ IsFailedConvert
    /\ df # before.df
    /\ \E i \in 1..Len(df) : df[i][op.columns[1]] # before.df[i][op.columns[1]]

----------------------------------------------------------------------------
Distinct(cols) == \A i, j \in DOMAIN cols : i # j => cols[i] # cols[j]

(* C10: the table load_and_clean_csv returns has columns unique by name:
   source names that are pairwise distinct stay pairwise distinct.  (The
   claim as stated.) *)
C10_NamesStayDistinct ==
    op.name = "load_and_clean_csv" => (Distinct(header) => Distinct(names))

\* neither capital nor space: nothing for the normalization to change
IsNormalized(name) == \A i \in DOMAIN name : name[i] \notin {"A", " "}

(* C10 as amended: load_and_clean_csv keeps one column per source column, in
   order, and two source names that are distinct and already normalized (no
   capital, no space) stay distinct; source names that differ only in case,
   in surrounding whitespace or in space against underscore may get the
   same name. *)
C10_NormalizedNamesStayDistinct ==
    op.name = "load_and_clean_csv" =>
        /\ Len(names) = Len(header)
        /\ \A i, j \in DOMAIN header :
               (i # j /\ IsNormalized(header[i]) /\ IsNormalized(header[j]))
                   => names[i] # names[j]

\* two normalized source names, one ending in an underscore, were loaded
C10_Witness ==
    /\ op.name = "load_and_clean_csv"
    /\ Len(header) = 2
    /\ IsNormalized(header[1]) /\ IsNormalized(header[2])
    /\ header[1] = Append(header[2], "_")
====
